---- MODULE Spec2Model ----
(***************************************************************************)
(* Model of the task execution engine of ECHOMEN (services/agentExecutor): *)
(* AgentExecutor.run / stop / cancelTask, executeTask with its retry path, *)
(* the ReAct loop with delegation, and reactivateDelegatorIfAny.           *)
(*                                                                         *)
(* Granularity: one TLA+ step is one JavaScript macrotask (a call from the *)
(* UI, or the resumption of an executor after an awaited oracle call, tool *)
(* call or timer), run up to the next await.  The continuation of run()    *)
(* after Promise.race is a microtask: it is the separate step RunStep,     *)
(* and nothing else is scheduled while it is pending (runPc = "loop").     *)
(***************************************************************************)
EXTENDS Integers, Sequences, FiniteSets, TLC

VARIABLES
    initialTasks,     \* the initialTasks argument of run()
    tasks,            \* this.tasks: the task list
    invs,             \* live executeTask invocations (uid -> record)
    activePromises,   \* the Map of run(): task id -> uid of the registered promise
    runPc,            \* position of run(): idle, loop, race, settle, returned
    raceSet,          \* uids of the promises run() is awaiting
    isStopped,        \* this.isStopped
    currentArtifacts, \* this.currentArtifacts (task id of each artifact)
    events,           \* outcome events emitted by run(): onFinish / onFail / playbook log
    isFromPlaybook,   \* initialTasks[0].id starts with 'playbook-'
    now,              \* value of the last Date.now() read that named a child task
    ticked,           \* a timer has fired since that read: the clock is past it
    oracleSteps,      \* oracle answers other than isFinished given so far
    delegations,      \* delegation actions taken so far
    cancels,          \* cancelTask calls so far that cancelled something
    everDone,         \* history: ids that have held status Done
    everCancelled,    \* history: ids that have held status Cancelled
    attempts,         \* history: id -> number of times executeTask set it Executing
    failures          \* history: id -> number of attempts that ended in the catch block

vars == <<initialTasks, tasks, invs, activePromises, runPc, raceSet, isStopped, currentArtifacts,
          events, isFromPlaybook, now, ticked, oracleSteps, delegations, cancels, everDone,
          everCancelled, attempts, failures>>

----------------------------------------------------------------------------
(* Bounds of the model *)
NumTasks == 3          \* initial tasks handed to run()
MaxRetries == 1        \* largest maxRetries of an initial task
MaxOracleSteps == 3    \* oracle answers other than isFinished, per run
MaxDelegations == 2    \* delegation actions, per run
MaxCancels == 1        \* cancelTask calls that cancel something, per run
MaxLongSteps == 11     \* oracle answers other than isFinished, per run of SpecSteps

(* Program constants *)
MAX_SUB_STEPS == 10
MAX_PARALLEL_TASKS == 4
ChildMaxRetries == 3

(* Identifiers *)
NoId == 0              \* absent delegatorTaskId / no task found
GhostId == 9           \* a dependency id that matches no task
ChildBase == 10        \* `task-sub-${Date.now()}` is ChildBase + now
InitIds == 1..NumTasks
ChildIds == (ChildBase + 1)..(ChildBase + MaxDelegations)
AllIds == 1..(ChildBase + MaxDelegations)

Statuses == {"Queued", "Executing", "Delegating", "Pending Review", "Revising",
             "Done", "Error", "Cancelled"}
Terminal == {"Done", "Error", "Cancelled"}

StallMessage == "Execution stalled due to a dependency issue or a cycle in the task graph."
RemainMessage == "Could not complete all tasks."

Min(S) == CHOOSE x \in S : \A y \in S : x <= y

Range(f) == {f[x] : x \in DOMAIN f}

NoTask == [id |-> NoId, status |-> "undefined", dependencies |-> {}, retryCount |-> 0,
           maxRetries |-> 0, subSteps |-> <<>>, delegatorTaskId |-> NoId, god |-> FALSE]

NewTask(id, deps, mx, isGod, parent) ==
    [id |-> id, status |-> "Queued", dependencies |-> deps, retryCount |-> 0,
     maxRetries |-> mx, subSteps |-> <<>>, delegatorTaskId |-> parent, god |-> isGod]

SubStep(toolName, obs) == [thought |-> "thought", toolCall |-> toolName, observation |-> obs]

(* this.tasks.find(t => t.id === id) *)
Find(ts, id) ==
    LET I == {i \in 1..Len(ts) : ts[i].id = id}
    IN  IF I = {} THEN NoTask ELSE ts[Min(I)]

(* { ...t, ...updates } *)
Merge(t, upd) ==
    LET Pick(f) == IF f \in DOMAIN upd THEN upd[f] ELSE t[f]
    IN  [id |-> Pick("id"), status |-> Pick("status"),
         dependencies |-> Pick("dependencies"), retryCount |-> Pick("retryCount"),
         maxRetries |-> Pick("maxRetries"), subSteps |-> Pick("subSteps"),
         delegatorTaskId |-> Pick("delegatorTaskId"), god |-> Pick("god")]

(* Mutant of UpdateTask: the update is merged onto a blank task, not onto
   the entry's current state *)
UpdateTaskOntoBlank(ts, id, upd) ==
    [i \in 1..Len(ts) |->
        IF ts[i].id = id THEN Merge([NoTask EXCEPT !.id = id], upd) ELSE ts[i]]

(* updateTask: every entry whose id matches gets the partial update *)
UpdateTask(ts, id, upd) ==
    [i \in 1..Len(ts) |-> IF ts[i].id = id THEN Merge(ts[i], upd) ELSE ts[i]]

(* the snapshot updateTask hands to onTaskUpdate and returns: the first entry
   with the id in the new list, or the caller's task merged when none matches *)
UpdatedTask(ts, task, upd) ==
    LET updatedTask == Find(UpdateTask(ts, task.id, upd), task.id)
    IN  IF updatedTask.id # NoId THEN updatedTask ELSE Merge(task, upd)

IdsWith(ts, st) == {ts[i].id : i \in {j \in 1..Len(ts) : ts[j].status = st}}

(* The state as one record, so that the synchronous parts of the handlers
   can be composed as functions *)
St == [tasks |-> tasks, invs |-> invs, activePromises |-> activePromises,
       runPc |-> runPc, raceSet |-> raceSet, isStopped |-> isStopped,
       currentArtifacts |-> currentArtifacts, events |-> events, now |-> now,
       ticked |-> ticked,
       oracleSteps |-> oracleSteps, delegations |-> delegations, cancels |-> cancels,
       attempts |-> attempts, failures |-> failures]

(* updateTask applied to the state *)
Upd(s, id, upd) == [s EXCEPT !.tasks = UpdateTask(@, id, upd)]

PutInv(s, inv) ==
    [s EXCEPT !.invs = [u \in DOMAIN s.invs \cup {inv.uid} |->
                            IF u = inv.uid THEN inv ELSE s.invs[u]]]

SetPc(s, uid, pc) == [s EXCEPT !.invs[uid].pc = pc]

NewUid(s) == Min({u \in 1..(Cardinality(DOMAIN s.invs) + 1) : u \notin DOMAIN s.invs})

----------------------------------------------------------------------------
(* Step Executor: the synchronous parts of executeTask and runReActLoop.
   An invocation that has returned is left with pc = "settled" until the
   end of the step, where Finish runs its .finally callback. *)

(* reactivateDelegatorIfAny(completedTask) *)
ReactivateDelegatorIfAny(s, completedTask) ==
    IF completedTask.delegatorTaskId = NoId THEN s
    ELSE LET parentTask == Find(s.tasks, completedTask.delegatorTaskId)
         IN  IF parentTask.id # NoId /\ parentTask.status = "Delegating"
             THEN IF Len(parentTask.subSteps) > 0
                  THEN Upd(s, parentTask.id,
                           [status |-> "Executing",
                            subSteps |-> [parentTask.subSteps EXCEPT
                                ![Len(parentTask.subSteps)].observation = "Delegated task completed"]])
                  ELSE Upd(s, parentTask.id, [status |-> "Executing"])
             ELSE s

(* Mutant of Completion: the task is not set to Done *)
CompletionKeepsExecuting(s, uid) == SetPc(s, uid, "settled")

(* executeTask after runReActLoop / simulateSimpleExecution returned normally *)
Completion(s, uid) ==
    LET id == s.invs[uid].id
        finalTaskState == Find(s.tasks, id)
        s1 == IF finalTaskState.id # NoId /\ finalTaskState.status = "Executing"
              THEN LET d == Upd(s, id, [status |-> "Done"])
                   IN  ReactivateDelegatorIfAny(d, Find(d.tasks, id))
              ELSE s
    IN  SetPc(s1, uid, "settled")

(* Mutant of Catch: retryCount <= maxRetries instead of < *)
CatchOffByOne(s, uid) ==
    LET inv == s.invs[uid]
        s0 == [s EXCEPT !.failures[inv.id] = @ + 1]
    IN  IF inv.rc <= inv.mx
        THEN SetPc(Upd(s0, inv.id, [status |-> "Queued", retryCount |-> inv.rc + 1]),
                   uid, "backoff")
        ELSE SetPc(Upd(s0, inv.id, [status |-> "Error"]), uid, "settled")

(* Mutant of Catch: a task that fails for good reactivates its delegator *)
CatchReactivates(s, uid) ==
    LET inv == s.invs[uid]
        s0 == [s EXCEPT !.failures[inv.id] = @ + 1]
    IN  IF inv.rc < inv.mx
        THEN SetPc(Upd(s0, inv.id, [status |-> "Queued", retryCount |-> inv.rc + 1]),
                   uid, "backoff")
        ELSE LET e == Upd(s0, inv.id, [status |-> "Error"])
             IN  SetPc(ReactivateDelegatorIfAny(e, Find(e.tasks, inv.id)), uid, "settled")

(* the catch block of executeTask: task is the snapshot the invocation was called with *)
Catch(s, uid) ==
    LET inv == s.invs[uid]
        s0 == [s EXCEPT !.failures[inv.id] = @ + 1]
    IN  IF inv.rc < inv.mx
        THEN SetPc(Upd(s0, inv.id, [status |-> "Queued", retryCount |-> inv.rc + 1]),
                   uid, "backoff")
        ELSE SetPc(Upd(s0, inv.id, [status |-> "Error"]), uid, "settled")

(* Mutant of LoopHead: the loop runs while subSteps.length <= MAX_SUB_STEPS *)
LoopHeadOffByOne(s, uid) ==
    LET inv == s.invs[uid]
    IN  IF Len(inv.steps) <= MAX_SUB_STEPS
        THEN IF s.isStopped \/ Find(s.tasks, inv.id).status # "Executing"
             THEN Completion(s, uid)
             ELSE SetPc(s, uid, "oracle")
        ELSE Completion(s, uid)

(* head of the while loop of runReActLoop, up to the await of determineNextStep *)
LoopHead(s, uid) ==
    LET inv == s.invs[uid]
    IN  IF Len(inv.steps) < MAX_SUB_STEPS
        THEN IF s.isStopped \/ Find(s.tasks, inv.id).status # "Executing"
             THEN Completion(s, uid)
             ELSE SetPc(s, uid, "oracle")
        ELSE Completion(s, uid)

(* simulateSimpleExecution up to the await of its timer *)
SimulateStart(s, uid) ==
    IF s.isStopped \/ Find(s.tasks, s.invs[uid].id).status # "Executing"
    THEN Completion(s, uid)
    ELSE SetPc(s, uid, "sim")

(* Mutant of ExecuteTask: no double-check of the status *)
ExecuteTaskNoCheck(s, uid, task) ==
    LET blank == [uid |-> uid, id |-> task.id, rc |-> task.retryCount,
                  mx |-> task.maxRetries, pc |-> "settled", steps |-> <<>>,
                  call |-> "none"]
        s1 == [Upd(s, task.id, [status |-> "Executing"])
                   EXCEPT !.attempts[task.id] = @ + 1]
        currentTask == Find(s1.tasks, task.id)
        s2 == PutInv(s1, [blank EXCEPT !.steps = currentTask.subSteps])
    IN  IF currentTask.god THEN LoopHead(s2, uid) ELSE SimulateStart(s2, uid)

(* executeTask(task) up to its first await; uid names the promise it returns *)
ExecuteTask(s, uid, task) ==
    LET blank == [uid |-> uid, id |-> task.id, rc |-> task.retryCount,
                  mx |-> task.maxRetries, pc |-> "settled", steps |-> <<>>,
                  call |-> "none"]
    IN  IF Find(s.tasks, task.id).status # "Queued"
        THEN PutInv(s, blank)
        ELSE LET s1 == [Upd(s, task.id, [status |-> "Executing"])
                            EXCEPT !.attempts[task.id] = @ + 1]
                 currentTask == Find(s1.tasks, task.id)
                 s2 == PutInv(s1, [blank EXCEPT !.steps = currentTask.subSteps])
             IN  IF currentTask.god THEN LoopHead(s2, uid) ELSE SimulateStart(s2, uid)

(* subSteps.push(newSubStep); updateTask(task, { subSteps: [...subSteps] }) *)
RecordStep(s, uid, step) ==
    LET steps == Append(s.invs[uid].steps, step)
    IN  Upd([s EXCEPT !.invs[uid].steps = steps], s.invs[uid].id, [subSteps |-> steps])

(* Mutant of Delegate: the child is made to depend on its delegator *)
DelegateWithDependency(s, uid, t, childGod) ==
    LET inv == s.invs[uid]
        newTask == NewTask(ChildBase + t, {inv.id}, ChildMaxRetries, childGod, inv.id)
        steps == Append(inv.steps, SubStep("create_and_delegate_task_to_new_agent",
                                           "Paused to delegate task."))
        s1 == [s EXCEPT !.now = t, !.ticked = FALSE, !.delegations = @ + 1, !.invs[uid].steps = steps]
        s2 == Upd(s1, inv.id, [status |-> "Delegating", subSteps |-> steps])
        s3 == [s2 EXCEPT !.tasks = Append(@, newTask)]
    IN  Completion(s3, uid)

(* the delegation branch of runReActLoop, and the return to executeTask *)
Delegate(s, uid, t, childGod) ==
    LET inv == s.invs[uid]
        newTask == NewTask(ChildBase + t, {}, ChildMaxRetries, childGod, inv.id)
        steps == Append(inv.steps, SubStep("create_and_delegate_task_to_new_agent",
                                           "Paused to delegate task."))
        s1 == [s EXCEPT !.now = t, !.ticked = FALSE, !.delegations = @ + 1, !.invs[uid].steps = steps]
        s2 == Upd(s1, inv.id, [status |-> "Delegating", subSteps |-> steps])
        s3 == [s2 EXCEPT !.tasks = Append(@, newTask)]
    IN  Completion(s3, uid)

(* End of a step: the .finally callback of every settled invocation deletes
   its key from activePromises, and a run() awaiting one of them resumes *)
Finish(s) ==
    LET settled == {u \in DOMAIN s.invs : s.invs[u].pc = "settled"}
        keys == {s.invs[u].id : u \in settled}
        live == DOMAIN s.invs \ settled
        left == s.raceSet \ settled
        s1 == [s EXCEPT !.invs = [u \in live |-> s.invs[u]],
                        !.activePromises = [k \in DOMAIN s.activePromises \ keys |->
                                                s.activePromises[k]]]
    IN  IF s.runPc = "race" /\ settled \cap s.raceSet # {}
        THEN [s1 EXCEPT !.runPc = "loop", !.raceSet = {}]
        ELSE IF s.runPc = "settle"
        THEN [s1 EXCEPT !.raceSet = left,
                        !.runPc = IF left = {} THEN "returned" ELSE "settle"]
        ELSE s1

(* Writes the state record back, and maintains the history variables *)
Commit(s) ==
    /\ tasks' = s.tasks
    /\ invs' = s.invs
    /\ activePromises' = s.activePromises
    /\ runPc' = s.runPc
    /\ raceSet' = s.raceSet
    /\ isStopped' = s.isStopped
    /\ currentArtifacts' = s.currentArtifacts
    /\ events' = s.events
    /\ now' = s.now
    /\ ticked' = s.ticked
    /\ oracleSteps' = s.oracleSteps
    /\ delegations' = s.delegations
    /\ cancels' = s.cancels
    /\ attempts' = s.attempts
    /\ failures' = s.failures
    /\ everDone' = everDone \cup IdsWith(s.tasks, "Done")
    /\ everCancelled' = everCancelled \cup IdsWith(s.tasks, "Cancelled")
    /\ UNCHANGED <<initialTasks, isFromPlaybook>>

----------------------------------------------------------------------------
(* Concurrency Scheduler: run(), stop(), cancelTask() *)

(* Mutant of FindReadyTasks: the status of the task is not looked at *)
FindReadyTasksAnyStatus(ts) ==
    SelectSeq(ts, LAMBDA task :
        \A depId \in task.dependencies : Find(ts, depId).status = "Done")

(* Mutant of FindReadyTasks: some dependency Done instead of every *)
FindReadyTasksSome(ts) ==
    SelectSeq(ts, LAMBDA task :
        /\ task.status = "Queued"
        /\ (task.dependencies = {} \/
            \E depId \in task.dependencies : Find(ts, depId).status = "Done"))

(* findReadyTasks: in list order *)
FindReadyTasks(ts) ==
    SelectSeq(ts, LAMBDA task :
        /\ task.status = "Queued"
        /\ \A depId \in task.dependencies : Find(ts, depId).status = "Done")

(* the admission loop of run(): executeTask for ready tasks while the Map is below the cap *)
RECURSIVE Admit(_, _)
Admit(s, readyTasks) ==
    IF Cardinality(DOMAIN s.activePromises) < MAX_PARALLEL_TASKS /\ readyTasks # <<>>
    THEN LET taskToRun == Head(readyTasks)
             uid == NewUid(s)
             s1 == ExecuteTask(s, uid, taskToRun)
             s2 == [s1 EXCEPT !.activePromises =
                        [k \in DOMAIN s1.activePromises \cup {taskToRun.id} |->
                            IF k = taskToRun.id THEN uid ELSE s1.activePromises[k]]]
         IN  Admit(s2, Tail(readyTasks))
    ELSE s

(* forEach over a list captured before the updates: updateTask(t, {status: st})
   for every entry whose status is in from *)
ForceStatus(ts, from, st) ==
    LET ids == {ts[i].id : i \in {j \in 1..Len(ts) : ts[j].status \in from}}
    IN  [i \in 1..Len(ts) |-> IF ts[i].id \in ids THEN Merge(ts[i], [status |-> st]) ELSE ts[i]]

(* Mutant of Stall: the stranded tasks are cancelled instead of failed *)
StallCancels(s) ==
    [s EXCEPT !.events = Append(@, StallMessage),
              !.tasks = ForceStatus(@, {"Queued"}, "Cancelled")]

(* Mutant of Stall: the stranded tasks are failed without the diagnostic *)
StallSilent(s) ==
    [s EXCEPT !.tasks = ForceStatus(@, {"Queued"}, "Error")]

(* the deadlock branch of run() *)
Stall(s) ==
    [s EXCEPT !.events = Append(@, StallMessage),
              !.tasks = ForceStatus(@, {"Queued"}, "Error")]

(* Mutant of AfterLoop: the stopped exit reports a failure *)
AfterLoopStopFails(s, fromPlaybook) ==
    LET ts == s.tasks
        Every(sts) == \A i \in 1..Len(ts) : ts[i].status \in sts
        Some(sts) == \E i \in 1..Len(ts) : ts[i].status \in sts
        awaited == Range(s.activePromises)
    IN  IF s.isStopped
        THEN [s EXCEPT !.events = Append(@, RemainMessage), !.raceSet = awaited,
                       !.runPc = IF awaited = {} THEN "returned" ELSE "settle"]
        ELSE LET ev == IF Every({"Done", "Cancelled"})
                       THEN IF ~fromPlaybook THEN <<"onFinish">> ELSE <<"playbook">>
                       ELSE IF Some({"Queued", "Pending Review"}) THEN <<RemainMessage>>
                       ELSE IF ~Some({"Error"}) THEN <<"onFinish">>
                       ELSE <<>>
             IN  [s EXCEPT !.events = @ \o ev, !.runPc = "returned", !.raceSet = {}]

(* Mutant of AfterLoop: tasks in Error count as remaining *)
AfterLoopCountsErrors(s, fromPlaybook) ==
    LET ts == s.tasks
        Every(sts) == \A i \in 1..Len(ts) : ts[i].status \in sts
        Some(sts) == \E i \in 1..Len(ts) : ts[i].status \in sts
        awaited == Range(s.activePromises)
    IN  IF s.isStopped
        THEN [s EXCEPT !.raceSet = awaited,
                       !.runPc = IF awaited = {} THEN "returned" ELSE "settle"]
        ELSE LET ev == IF Every({"Done", "Cancelled"})
                       THEN IF ~fromPlaybook THEN <<"onFinish">> ELSE <<"playbook">>
                       ELSE IF Some({"Queued", "Pending Review", "Error"})
                       THEN <<RemainMessage>>
                       ELSE <<"onFinish">>
             IN  [s EXCEPT !.events = @ \o ev, !.runPc = "returned", !.raceSet = {}]

(* run() after the scheduler loop: the stopped exit and the final status check *)
AfterLoop(s, fromPlaybook) ==
    LET ts == s.tasks
        Every(sts) == \A i \in 1..Len(ts) : ts[i].status \in sts
        Some(sts) == \E i \in 1..Len(ts) : ts[i].status \in sts
        awaited == Range(s.activePromises)
    IN  IF s.isStopped
        THEN [s EXCEPT !.raceSet = awaited,
                       !.runPc = IF awaited = {} THEN "returned" ELSE "settle"]
        ELSE LET ev == IF Every({"Done", "Cancelled"})
                       THEN IF ~fromPlaybook THEN <<"onFinish">> ELSE <<"playbook">>
                       ELSE IF Some({"Queued", "Pending Review"}) THEN <<RemainMessage>>
                       ELSE IF ~Some({"Error"}) THEN <<"onFinish">>
                       ELSE <<>>
             IN  [s EXCEPT !.events = @ \o ev, !.runPc = "returned", !.raceSet = {}]

(* one iteration of the while loop of run(), up to its await or its exit *)
RunIteration(s, fromPlaybook) ==
    LET ts == s.tasks
        Some(sts) == \E i \in 1..Len(ts) : ts[i].status \in sts
    IN  IF Some({"Queued", "Executing", "Delegating"}) /\ ~s.isStopped
        THEN LET s1 == Admit(s, FindReadyTasks(ts))
             IN  IF DOMAIN s1.activePromises # {}
                 THEN Finish([s1 EXCEPT !.runPc = "race",
                                        !.raceSet = Range(s1.activePromises)])
                 ELSE IF \E i \in 1..Len(s1.tasks) : s1.tasks[i].status = "Queued"
                 THEN AfterLoop(Stall(s1), fromPlaybook)
                 ELSE AfterLoop(s1, fromPlaybook)
        ELSE AfterLoop(s, fromPlaybook)

(* cancelTask: recursivelyCancel and its forEach over the dependents *)
RECURSIVE RecursivelyCancel(_, _), CancelEach(_, _)

(* Mutant of RecursivelyCancel: the cascade sits in the else branch *)
RecursivelyCancelMisplaced(ts, id) ==
    LET task == Find(ts, id)
    IN  IF task.id # NoId /\ task.status # "Cancelled"
        THEN UpdateTask(ts, id, [status |-> "Cancelled"])
        ELSE IF task.id # NoId
        THEN CancelEach(ts, SelectSeq(ts, LAMBDA t : id \in t.dependencies /\ t.status # "Cancelled"))
        ELSE ts

RecursivelyCancel(ts, id) ==
    LET task == Find(ts, id)
    IN  IF task.id # NoId /\ task.status # "Cancelled"
        THEN LET ts1 == UpdateTask(ts, id, [status |-> "Cancelled"])
                 dependents == SelectSeq(ts1, LAMBDA t : id \in t.dependencies)
             IN  CancelEach(ts1, dependents)
        ELSE ts

CancelEach(ts, dependents) ==
    IF dependents = <<>> THEN ts
    ELSE CancelEach(RecursivelyCancel(ts, Head(dependents).id), Tail(dependents))

(* recursivelyCancel with the cancelledIds array of cancelTask: c is the
   task list together with the ids pushed so far *)
RECURSIVE RecursivelyCancelIds(_, _), CancelEachIds(_, _)

(* Mutant of RecursivelyCancelIds: the id is pushed before the status is looked at *)
RecursivelyCancelIdsPushFirst(c, id) ==
    LET task == Find(c.ts, id)
        c0 == [c EXCEPT !.cancelledIds = Append(@, id)]
    IN  IF task.id # NoId /\ task.status # "Cancelled"
        THEN LET c1 == [c0 EXCEPT !.ts = UpdateTask(@, id, [status |-> "Cancelled"])]
                 dependents == SelectSeq(c1.ts, LAMBDA t : id \in t.dependencies)
             IN  CancelEachIds(c1, dependents)
        ELSE c0

RecursivelyCancelIds(c, id) ==
    LET task == Find(c.ts, id)
    IN  IF task.id # NoId /\ task.status # "Cancelled"
        THEN LET c1 == [ts |-> UpdateTask(c.ts, id, [status |-> "Cancelled"]),
                        cancelledIds |-> Append(c.cancelledIds, id)]
                 dependents == SelectSeq(c1.ts, LAMBDA t : id \in t.dependencies)
             IN  CancelEachIds(c1, dependents)
        ELSE c

CancelEachIds(c, dependents) ==
    IF dependents = <<>> THEN c
    ELSE CancelEachIds(RecursivelyCancelIds(c, Head(dependents).id), Tail(dependents))

----------------------------------------------------------------------------
(* Actions *)

Quiet == runPc \in {"race", "settle", "returned"}

RunStart ==
    /\ runPc = "idle"
    /\ Commit([St EXCEPT !.isStopped = FALSE, !.tasks = initialTasks,
                         !.currentArtifacts = <<>>, !.runPc = "loop"])

RunStep ==
    /\ runPc = "loop"
    /\ Commit(RunIteration(St, isFromPlaybook))

Stop ==
    /\ Quiet
    /\ Commit([St EXCEPT !.isStopped = TRUE,
                         !.tasks = ForceStatus(@, {"Executing", "Queued", "Pending Review",
                                                   "Delegating"}, "Cancelled")])

CancelTask(taskId) ==
    /\ Quiet
    /\ cancels < MaxCancels
    /\ LET ts == RecursivelyCancel(tasks, taskId)
       IN  Commit([St EXCEPT !.tasks = ts,
                             !.cancels = IF ts # tasks THEN @ + 1 ELSE @])

(* A setTimeout of a second or more has elapsed: Date.now() has advanced *)
Tick(s) == [s EXCEPT !.ticked = TRUE]

Awaiting(uid, pc) == Quiet /\ uid \in DOMAIN invs /\ invs[uid].pc = pc

MayStep == oracleSteps < MaxOracleSteps

Stepped(s) == [s EXCEPT !.oracleSteps = @ + 1]

(* determineNextStep resolves with { isFinished: true } *)
OracleFinished(uid) ==
    /\ Awaiting(uid, "oracle")
    /\ Commit(Finish(Completion(St, uid)))

(* determineNextStep rejects *)
OracleRejects(uid) ==
    /\ Awaiting(uid, "oracle") /\ MayStep
    /\ Commit(Finish(Catch(Stepped(St), uid)))

(* toolCall.name === 'create_and_delegate_task_to_new_agent'; t is the value
   Date.now() returns, which names the child *)
OracleDelegates(uid, t, childGod) ==
    /\ Awaiting(uid, "oracle") /\ MayStep
    /\ delegations < MaxDelegations
    /\ t \in (IF ticked THEN {now + 1} ELSE {now, now + 1}) /\ t >= 1
    /\ Commit(Finish(Delegate(Stepped(St), uid, t, childGod)))

(* toolCall.name === 'createArtifact' *)
OracleCreateArtifact(uid) ==
    /\ Awaiting(uid, "oracle") /\ MayStep
    /\ LET s1 == [Stepped(St) EXCEPT !.currentArtifacts = Append(@, invs[uid].id)]
           s2 == RecordStep(s1, uid, SubStep("createArtifact", "created successfully"))
       IN  Commit(Finish(LoopHead(s2, uid)))

(* a tool of availableTools, or executeCode: the call is awaited *)
OracleToolCall(uid, name) ==
    /\ Awaiting(uid, "oracle") /\ MayStep
    /\ Commit([Stepped(St) EXCEPT !.invs[uid].pc = "tool", !.invs[uid].call = name])

(* Mutant of OracleUnknownTool: the missing tool raises *)
OracleUnknownToolThrows(uid) ==
    /\ Awaiting(uid, "oracle") /\ MayStep
    /\ Commit(Finish(Catch(Stepped(St), uid)))

(* a tool name that is not in availableTools *)
OracleUnknownTool(uid) ==
    /\ Awaiting(uid, "oracle") /\ MayStep
    /\ Commit(Finish(LoopHead(RecordStep(Stepped(St), uid,
                                         SubStep("unknownTool", "not found")), uid)))

(* What the model can send back to determineNextStep: the request may fail;
   the text may not parse; the parsed object may lack any of its fields *)
RawAnswers ==
    [responds : BOOLEAN, parses : BOOLEAN, isFinished : BOOLEAN, thought : BOOLEAN,
     toolCall : {"none", "executeCode"}, args : BOOLEAN]

(* Mutant of DetermineNextStep: the parse error is not caught *)
DetermineNextStepThrows(raw) ==
    IF ~raw.responds \/ ~raw.parses THEN [kind |-> "throw", toolCall |-> "none"]
    ELSE IF raw.isFinished THEN [kind |-> "finished", toolCall |-> "none"]
    ELSE IF raw.thought /\ raw.toolCall # "none" /\ raw.args
    THEN [kind |-> "step", toolCall |-> raw.toolCall]
    ELSE [kind |-> "throw", toolCall |-> "none"]

(* determineNextStep: the request, then JSON.parse and the checks of the
   result inside try, with the askUser step as the catch's fallback *)
DetermineNextStep(raw) ==
    LET fallback == [kind |-> "step", toolCall |-> "askUser"]
    IN  IF ~raw.responds THEN [kind |-> "throw", toolCall |-> "none"]
        ELSE IF ~raw.parses THEN fallback
        ELSE IF raw.isFinished THEN [kind |-> "finished", toolCall |-> "none"]
        ELSE IF raw.thought /\ raw.toolCall # "none" /\ raw.args
        THEN [kind |-> "step", toolCall |-> raw.toolCall]
        ELSE fallback

(* the oracle call of runReActLoop settles with the model's answer raw *)
OracleAnswers(uid, raw) ==
    /\ Awaiting(uid, "oracle")
    /\ LET nextStep == DetermineNextStep(raw)
       IN  CASE nextStep.kind = "finished" -> OracleFinished(uid)
             [] nextStep.kind = "step" -> OracleToolCall(uid, nextStep.toolCall)
             [] OTHER -> OracleRejects(uid)

ToolResolves(uid) ==
    /\ Awaiting(uid, "tool")
    /\ LET call == invs[uid].call
           s1 == IF call = "executeCode"
                 THEN [St EXCEPT !.currentArtifacts = Append(@, invs[uid].id)]
                 ELSE St
           s2 == RecordStep([s1 EXCEPT !.invs[uid].call = "none"], uid,
                            SubStep(call, "result"))
       IN  Commit(Finish(LoopHead(s2, uid)))

ToolRejects(uid) ==
    /\ Awaiting(uid, "tool")
    /\ Commit(Finish(Catch([St EXCEPT !.invs[uid].call = "none"], uid)))

(* the timer of simulateSimpleExecution fires *)
SimulateDone(uid) ==
    /\ Awaiting(uid, "sim")
    /\ Commit(Finish(Completion(Tick(St), uid)))

(* the one-second backoff timer fires: executeTask(this.tasks.find(...)) *)
BackoffWake(uid) ==
    /\ Awaiting(uid, "backoff")
    /\ Commit(Finish(ExecuteTask(Tick(St), uid, Find(tasks, invs[uid].id))))

----------------------------------------------------------------------------
(* Initial task sets *)

(* Dependency graphs over the initial ids: two free tasks joined by the rest,
   a chain, a fork, a ring through every task, a two-task cycle beside free
   tasks, and a set with an unresolvable and a self dependency *)
DepGraphs ==
    { [i \in InitIds |-> IF i <= 2 THEN {} ELSE {1, 2}],
      [i \in InitIds |-> IF i = 1 THEN {} ELSE {i - 1}],
      [i \in InitIds |-> IF i = 1 THEN {} ELSE {1}],
      [i \in InitIds |-> {(i % NumTasks) + 1}],
      [i \in InitIds |-> IF i = 1 THEN {2} ELSE IF i = 2 THEN {1} ELSE {}],
      [i \in InitIds |-> IF i = 1 THEN {} ELSE IF i = 2 THEN {GhostId} ELSE {i}] }

(* Tasks whose agent is the Executor named 'God Mode'; the others take
   simulateSimpleExecution *)
GodIds == {1, 2}

InitialTaskSets ==
    { [i \in InitIds |-> NewTask(i, g[i], m, i \in GodIds, NoId)] :
        g \in DepGraphs, m \in 0..MaxRetries }

PlaybookTaskSets ==
    { ts \in InitialTaskSets : \A i \in InitIds : ts[i].dependencies = {i - 1} \ {0} }

InitWith(ts, fromPlaybook) ==
    /\ initialTasks = ts
    /\ isFromPlaybook = fromPlaybook
    /\ tasks = <<>>
    /\ invs = <<>>
    /\ activePromises = <<>>
    /\ runPc = "idle"
    /\ raceSet = {}
    /\ isStopped = FALSE
    /\ currentArtifacts = <<>>
    /\ events = <<>>
    /\ now = 0
    /\ ticked = FALSE
    /\ oracleSteps = 0
    /\ delegations = 0
    /\ cancels = 0
    /\ everDone = {}
    /\ everCancelled = {}
    /\ attempts = [i \in AllIds |-> 0]
    /\ failures = [i \in AllIds |-> 0]

Init ==
    \E ts \in InitialTaskSets, fromPlaybook \in BOOLEAN :
        /\ fromPlaybook => ts \in PlaybookTaskSets
        /\ InitWith(ts, fromPlaybook)

Uids == 1..(NumTasks + MaxDelegations + 2)

Next ==
    \/ RunStart
    \/ RunStep
    \/ Stop
    \/ \E taskId \in InitIds \cup ChildIds \cup {GhostId} : CancelTask(taskId)
    \/ \E uid \in Uids : OracleFinished(uid)
    \/ \E uid \in Uids : OracleRejects(uid)
    \/ \E uid \in Uids, t \in 1..MaxDelegations, g \in BOOLEAN : OracleDelegates(uid, t, g)
    \/ \E uid \in Uids : OracleCreateArtifact(uid)
    \/ \E uid \in Uids, name \in {"executeCode", "askUser"} : OracleToolCall(uid, name)
    \/ \E uid \in Uids : OracleUnknownTool(uid)
    \/ \E uid \in Uids : ToolResolves(uid)
    \/ \E uid \in Uids : ToolRejects(uid)
    \/ \E uid \in Uids : SimulateDone(uid)
    \/ \E uid \in Uids : BackoffWake(uid)

Spec == Init /\ [][Next]_vars

(* A run of one task more than the cap, all independent, with no failure, stop or cancel *)
CapIds == 1..(MAX_PARALLEL_TASKS + 1)

InitCap == InitWith([i \in CapIds |-> NewTask(i, {}, 0, i \in GodIds, NoId)], FALSE)

NextCap ==
    \/ RunStart
    \/ RunStep
    \/ \E uid \in Uids : OracleFinished(uid)
    \/ \E uid \in Uids, t \in 1..MaxDelegations : OracleDelegates(uid, t, FALSE)
    \/ \E uid \in Uids : SimulateDone(uid)

SpecCap == InitCap /\ [][NextCap]_vars

(* Runs of an acyclic task set whose dependencies all resolve, in which every
   attempt succeeds and there is no stop, cancel or delegation *)
InitOk ==
    /\ Init
    /\ \A i \in InitIds : initialTasks[i].dependencies \subseteq 1..(i - 1)

NextOk ==
    \/ RunStart
    \/ RunStep
    \/ \E uid \in Uids : OracleFinished(uid)
    \/ \E uid \in Uids : OracleCreateArtifact(uid)
    \/ \E uid \in Uids, name \in {"executeCode", "askUser"} : OracleToolCall(uid, name)
    \/ \E uid \in Uids : OracleUnknownTool(uid)
    \/ \E uid \in Uids : ToolResolves(uid)
    \/ \E uid \in Uids : SimulateDone(uid)

SpecOk == InitOk /\ [][NextOk]_vars

(* Runs in which every oracle call settles with an answer of the model *)
NextParse ==
    \/ RunStart
    \/ RunStep
    \/ \E uid \in Uids, raw \in RawAnswers : OracleAnswers(uid, raw)
    \/ \E uid \in Uids : ToolResolves(uid)
    \/ \E uid \in Uids : ToolRejects(uid)
    \/ \E uid \in Uids : SimulateDone(uid)
    \/ \E uid \in Uids : BackoffWake(uid)

SpecParse == Init /\ [][NextParse]_vars

(* Runs of two independent God Mode tasks that are long enough for a ReAct
   loop to reach MAX_SUB_STEPS, with rejected oracle calls and retries *)
LongIds == 1..2

InitSteps ==
    \E m \in 0..MaxRetries :
        InitWith([i \in LongIds |-> NewTask(i, {}, m, TRUE, NoId)], FALSE)

MayStepLong == oracleSteps < MaxLongSteps

OracleUnknownToolLong(uid) ==
    /\ Awaiting(uid, "oracle") /\ MayStepLong
    /\ Commit(Finish(LoopHead(RecordStep(Stepped(St), uid,
                                         SubStep("unknownTool", "not found")), uid)))

OracleRejectsLong(uid) ==
    /\ Awaiting(uid, "oracle") /\ MayStepLong
    /\ Commit(Finish(Catch(Stepped(St), uid)))

NextSteps ==
    \/ RunStart
    \/ RunStep
    \/ \E uid \in Uids : OracleFinished(uid)
    \/ \E uid \in Uids : OracleUnknownToolLong(uid)
    \/ \E uid \in Uids : OracleRejectsLong(uid)
    \/ \E uid \in Uids, t \in 1..MaxDelegations : OracleDelegates(uid, t, FALSE)
    \/ \E uid \in Uids : SimulateDone(uid)
    \/ \E uid \in Uids : BackoffWake(uid)

SpecSteps == InitSteps /\ [][NextSteps]_vars

(* Runs of the same two tasks in which oracle calls only finish, delegate or
   reject, with enough rejections for delegated tasks to use their retries *)
NextRetry ==
    \/ RunStart
    \/ RunStep
    \/ \E uid \in Uids : OracleFinished(uid)
    \/ \E uid \in Uids : OracleRejectsLong(uid)
    \/ \E uid \in Uids, t \in 1..MaxDelegations, g \in BOOLEAN : OracleDelegates(uid, t, g)
    \/ \E uid \in Uids : SimulateDone(uid)
    \/ \E uid \in Uids : BackoffWake(uid)

SpecRetry == InitSteps /\ [][NextRetry]_vars

(* ------------------------------------------------------------------ *)
(* Properties                                                         *)
(* ------------------------------------------------------------------ *)

Idx(ts) == 1..Len(ts)

NumExecuting == Cardinality({i \in Idx(tasks) : tasks[i].status = "Executing"})

(* C1: run() terminates: while it is in its scheduling loop, every     *)
(* iteration of the loop makes progress, so the loop is never stuck    *)
(* repeating an iteration that changes nothing and never returns.      *)
C1_RunMakesProgress ==
    runPc = "loop" => RunIteration(St, isFromPlaybook) # St

(* C2: once a task is Done, Error or Cancelled its status never        *)
(* changes again.                                                      *)
C2_TerminalIsFinal ==
    [][\A i \in Idx(tasks) :
         tasks[i].status \in Terminal => tasks'[i].status = tasks[i].status]_vars

(* C3: a task becomes Executing only after every task it depends on    *)
(* has become Done.                                                    *)
C3_DependencyOrder ==
    [][\A i \in Idx(tasks') :
         (/\ tasks'[i].status = "Executing"
          /\ (i > Len(tasks) \/ tasks[i].status # "Executing"))
         => tasks'[i].dependencies \subseteq everDone]_vars

C3_Witness ==
    \E i \in Idx(tasks) :
        /\ tasks[i].status = "Executing"
        /\ tasks[i].retryCount >= 1
        /\ tasks[i].dependencies # {}
        /\ tasks[i].dependencies \subseteq everDone

(* C4: at no instant are more than MAX_PARALLEL_TASKS tasks Executing. *)
C4_ConcurrencyCap ==
    NumExecuting <= MAX_PARALLEL_TASKS

(* The initial tasks that lie on a dependency cycle closed under dependencies *)
InitDeps(i) == initialTasks[i].dependencies

RECURSIVE Reach(_, _)
Reach(S, n) ==
    IF n = 0 THEN S
    ELSE Reach(S \cup UNION {InitDeps(j) : j \in S \cap InitIds}, n - 1)

DepsClosure(i) == Reach(InitDeps(i), NumTasks)

CycleTasks ==
    {i \in InitIds : /\ InitDeps(i) # {}
                     /\ DepsClosure(i) \subseteq InitIds
                     /\ \A j \in DepsClosure(i) : i \in DepsClosure(j)}

(* C5: the tasks of a dependency cycle with no dependency outside it   *)
(* are never executed, and, with no stop or cancel, when run() has     *)
(* returned they are all Error and the stall diagnostic was emitted;   *)
(* a run made of such tasks only returns from its first iteration.     *)
C5_CycleStalls ==
    /\ \A i \in CycleTasks : attempts[i] = 0
    /\ (runPc = "returned" /\ ~isStopped /\ cancels = 0 /\ CycleTasks # {}) =>
          /\ \A i \in CycleTasks : Find(tasks, i).status = "Error"
          /\ \E k \in 1..Len(events) : events[k] = StallMessage
    /\ (runPc = "loop" /\ ~isStopped /\ CycleTasks = InitIds) =>
          RunIteration(St, isFromPlaybook).runPc = "returned"

C5_Witness ==
    /\ runPc = "returned" /\ ~isStopped /\ cancels = 0
    /\ CycleTasks # {}
    /\ \A i \in CycleTasks : Find(tasks, i).status = "Error"
    /\ \E i \in Idx(tasks) : tasks[i].status = "Done"

(* C6: a task that was never cancelled, whose every attempt failed and *)
(* that is Error was attempted exactly maxRetries + 1 times and has    *)
(* retryCount = maxRetries.                                            *)
C6_RetryCount ==
    \A i \in Idx(tasks) :
        LET t == tasks[i]
        IN  (/\ t.status = "Error"
             /\ t.id \notin everCancelled
             /\ attempts[t.id] > 0
             /\ failures[t.id] = attempts[t.id])
            => (attempts[t.id] = t.maxRetries + 1 /\ t.retryCount = t.maxRetries)

C6_Witness ==
    \E i \in Idx(tasks) :
        LET t == tasks[i]
        IN  /\ t.status = "Error"
            /\ t.id \notin everCancelled
            /\ t.maxRetries >= 1
            /\ failures[t.id] = attempts[t.id]
            /\ attempts[t.id] = t.maxRetries + 1

Dependents(ts, S) == {ts[i].id : i \in {j \in Idx(ts) : ts[j].dependencies \cap S # {}}}

RECURSIVE TransDep(_, _, _)
TransDep(ts, S, n) ==
    IF n = 0 THEN S ELSE TransDep(ts, S \cup Dependents(ts, S), n - 1)

(* C7: in every state, cancelling any task A of the list leaves A and  *)
(* every transitive dependent of A Cancelled and every other task      *)
(* with the status it had.                                             *)
C7_CascadeExact ==
    \A a \in {tasks[i].id : i \in Idx(tasks)} :
        LET ts2 == RecursivelyCancel(tasks, a)
            hit == TransDep(tasks, {a}, Len(tasks))
        IN  /\ Find(ts2, a).status = "Cancelled"
            /\ \A i \in Idx(tasks) :
                   IF tasks[i].id \in hit \ {a}
                   THEN ts2[i].status = "Cancelled"
                   ELSE (tasks[i].id # a => ts2[i].status = tasks[i].status)

(* C8: in every state, cancelling any task (or an id that matches no   *)
(* task) a second time directly after the first changes nothing in     *)
(* the task list.                                                      *)
C8_CancelIdempotent ==
    \A a \in {tasks[i].id : i \in Idx(tasks)} \cup {GhostId} :
        RecursivelyCancel(RecursivelyCancel(tasks, a), a) = RecursivelyCancel(tasks, a)

C8_Witness ==
    /\ cancels >= 1 /\ ~isStopped
    /\ \E i, j \in Idx(tasks) :
          /\ tasks[i].status = "Cancelled" /\ tasks[j].status = "Cancelled"
          /\ tasks[i].id \in tasks[j].dependencies
    /\ \E i \in Idx(tasks) : tasks[i].status = "Executing"

(* C9: when an Executing task takes the delegation action, a child is  *)
(* appended with status Queued, its delegatorTaskId the task's id and  *)
(* no dependencies, the task becomes Delegating, and its invocation    *)
(* ends.                                                               *)
C9_Delegation ==
    [][\A uid \in Uids, t \in 1..MaxDelegations, g \in BOOLEAN :
         (OracleDelegates(uid, t, g) /\ Find(tasks, invs[uid].id).status = "Executing")
         => LET P == invs[uid].id
                c == tasks'[Len(tasks')]
            IN  /\ Len(tasks') = Len(tasks) + 1
                /\ c.status = "Queued"
                /\ c.delegatorTaskId = P
                /\ c.dependencies = {}
                /\ Find(tasks', P).status = "Delegating"
                /\ uid \notin DOMAIN invs']_vars

C9_Witness ==
    \E i, j \in Idx(tasks) :
        /\ tasks[i].status = "Delegating"
        /\ tasks[j].status = "Queued"
        /\ tasks[j].delegatorTaskId = tasks[i].id
        /\ tasks[j].dependencies = {}
        /\ j = Len(tasks)
        /\ tasks[i].id \notin DOMAIN activePromises

(* C10: when a delegated child becomes Done, a parent that exists and  *)
(* is Delegating becomes Executing with the completion observation on  *)
(* its last subStep; otherwise no other task is changed.               *)
C10_Reactivation ==
    [][\A i \in Idx(tasks) :
         (/\ tasks[i].delegatorTaskId # NoId
          /\ tasks[i].status # "Done"
          /\ tasks'[i].status = "Done")
         => LET P  == Find(tasks, tasks[i].delegatorTaskId)
                P2 == Find(tasks', tasks[i].delegatorTaskId)
            IN  IF P.id # NoId /\ P.status = "Delegating"
                THEN /\ P2.status = "Executing"
                     /\ Len(P2.subSteps) > 0
                     /\ P2.subSteps[Len(P2.subSteps)].observation = "Delegated task completed"
                ELSE \A j \in Idx(tasks) :
                         tasks[j].id # tasks[i].id => tasks'[j] = tasks[j]]_vars

(* The task has been set back to Executing by reactivateDelegatorIfAny *)
Reactivated(t) ==
    /\ t.status = "Executing"
    /\ Len(t.subSteps) > 0
    /\ t.subSteps[Len(t.subSteps)].observation = "Delegated task completed"

InFlight(is, id) == \E u \in DOMAIN is : is[u].id = id

(* C11: when the scheduler loop runs (not stopped) and finds a parent   *)
(* that was set back to Executing after its child completed and has no *)
(* executor, that iteration starts an executor for the parent.         *)
C11_ParentReadmitted ==
    [][(runPc = "loop" /\ ~isStopped)
       => \A i \in Idx(tasks) :
              (Reactivated(tasks[i]) /\ ~InFlight(invs, tasks[i].id))
              => InFlight(invs', tasks[i].id)]_vars

(* C13: whenever run() emits onFinish, every task is Done or Cancelled *)
(* at that moment.                                                     *)
C13_FinishOnlyWhenAllDone ==
    [][(Len(events') > Len(events) /\ events'[Len(events')] = "onFinish")
       => \A i \in Idx(tasks') : tasks'[i].status \in {"Done", "Cancelled"}]_vars

(* C14: when the scheduler loop ends without stop and without stall    *)
(* and some task is neither Done nor Cancelled, run() emits onFail.    *)
C14_FailureReported ==
    [][(/\ runPc = "loop" /\ runPc' = "returned" /\ ~isStopped
        /\ \A k \in (Len(events) + 1)..Len(events') : events'[k] # StallMessage
        /\ \E i \in Idx(tasks') : tasks'[i].status \notin {"Done", "Cancelled"})
       => /\ Len(events') > Len(events)
          /\ events'[Len(events')] = RemainMessage]_vars

RECURSIVE SumOver(_, _)
SumOver(f, S) ==
    IF S = {} THEN 0
    ELSE LET x == CHOOSE y \in S : TRUE IN f[x] + SumOver(f, S \ {x})

(* What is left for a run to do decreases as this grows *)
Progress ==
    LET pcRank == CASE runPc = "idle" -> 0 [] runPc = "loop" -> 1 [] runPc = "race" -> 2
                    [] runPc = "settle" -> 2 [] runPc = "returned" -> 3
    IN  pcRank + 2 * Cardinality({i \in Idx(tasks) : tasks[i].status = "Done"})
        + SumOver(attempts, AllIds) + oracleSteps
        + SumOver([i \in Idx(tasks) |-> Len(tasks[i].subSteps)], Idx(tasks))

(* run() is suspended on executors that are each awaiting an oracle answer, a
   tool result or a timer *)
WaitsOnLiveExecutors ==
    /\ raceSet # {}
    /\ \A u \in raceSet : u \in DOMAIN invs /\ invs[u].pc \in {"oracle", "tool", "sim", "backoff"}

(* C12: in a run of an acyclic task set with resolving dependencies,   *)
(* where every attempt succeeds and nothing is stopped, cancelled or   *)
(* delegated: every step advances the run, the run never stalls, it    *)
(* only ever waits on executors that are awaiting an answer, and when  *)
(* it has returned every task is Done.                                 *)
C12_AllDone ==
    /\ [](/\ runPc = "loop" => RunIteration(St, isFromPlaybook) # St
          /\ runPc = "race" => WaitsOnLiveExecutors
          /\ runPc # "settle"
          /\ \A k \in 1..Len(events) : events[k] \notin {StallMessage, RemainMessage}
          /\ runPc = "returned" =>
                /\ Len(tasks) = NumTasks
                /\ \A i \in Idx(tasks) : tasks[i].status = "Done"
                /\ invs = <<>>)
    /\ [][Progress' > Progress]_vars

C12_Witness ==
    /\ runPc = "returned"
    /\ \A i \in Idx(tasks) : tasks[i].status = "Done"
    /\ initialTasks[NumTasks].dependencies = {1, 2}
    /\ \E i \in Idx(tasks) : Len(tasks[i].subSteps) >= 2

(* C15: once stop() has been called no outcome event is emitted any    *)
(* more, and while run() then waits before returning it waits on       *)
(* executors that are each awaiting an answer or a timer.              *)
C15_StopIsSilent ==
    /\ [](runPc = "settle" => (isStopped /\ WaitsOnLiveExecutors))
    /\ [][isStopped => (isStopped' /\ events' = events)]_vars
    /\ [][(runPc = "loop" /\ isStopped) => runPc' \in {"settle", "returned"}]_vars

C15_Witness ==
    /\ runPc = "returned" /\ isStopped
    /\ events = <<>>
    /\ \E i \in Idx(tasks) : tasks[i].status = "Cancelled" /\ failures[tasks[i].id] > 0
    /\ \E i \in Idx(tasks) : tasks[i].status = "Done"

(* C16: after stop() has been called no executeTask call sets a task   *)
(* to Executing.                                                       *)
C16_NoAdmissionAfterStop ==
    [][isStopped => attempts' = attempts]_vars

(* C17: when run() returns after a stop(), no task is Queued,          *)
(* Executing or Delegating, and (no cancelTask having been called)     *)
(* every task that the stop cancelled is Cancelled.                    *)
C17_AllCancelledAtReturn ==
    [][(runPc # "returned" /\ runPc' = "returned" /\ isStopped')
       => /\ \A i \in Idx(tasks') :
                tasks'[i].status \notin {"Queued", "Executing", "Delegating"}
          /\ cancels' = 0 => \A i \in Idx(tasks') :
                tasks'[i].id \in everCancelled' => tasks'[i].status = "Cancelled"]_vars

(* C18: when run() leaves its loop (no stop, no cancel) in a run where *)
(* a task has become Error after exhausting its retries, no Queued     *)
(* task with all dependencies Done is left behind, and every other     *)
(* task whose dependencies are all Done has been driven to Done or     *)
(* Error.                                                              *)
C18_SiblingsCompleted ==
    [][(/\ runPc = "loop" /\ runPc' = "returned" /\ ~isStopped /\ cancels = 0
        /\ \E e \in Idx(tasks') :
              tasks'[e].status = "Error" /\ failures[tasks'[e].id] > 0)
       => /\ FindReadyTasks(tasks) = <<>>
          /\ \A i \in Idx(tasks') :
                (\A d \in tasks'[i].dependencies : Find(tasks', d).status = "Done")
                => tasks'[i].status \in {"Done", "Error"}]_vars

(* C19: a scheduler iteration never starts an executor for a task id   *)
(* whose registered executor is still in flight, and does not replace  *)
(* its registered handle.                                              *)
C19_NoDoubleAdmission ==
    [][runPc = "loop"
       => \A id \in DOMAIN activePromises :
              activePromises[id] \in DOMAIN invs
              => /\ attempts'[id] = attempts[id]
                 /\ id \in DOMAIN activePromises'
                 /\ activePromises'[id] = activePromises[id]]_vars

(* A Queued task with a dependency that matches no task or is Error *)
Stranded(ts, t) ==
    /\ t.status = "Queued"
    /\ \E d \in t.dependencies : Find(ts, d).id = NoId \/ Find(ts, d).status = "Error"

(* C20: absent stop and cancel, a Queued task with a dependency that   *)
(* matches no task or is Error is never admitted, the scheduler loop   *)
(* is never stuck repeating an unchanged iteration while such a task   *)
(* exists, and when run() leaves its loop the task is forced to Error  *)
(* with the stall diagnostic.                                          *)
C20_StrandedTaskStalls ==
    /\ []((runPc = "loop" /\ ~isStopped /\ \E i \in Idx(tasks) : Stranded(tasks, tasks[i]))
          => RunIteration(St, isFromPlaybook) # St)
    /\ [][\A i \in Idx(tasks) :
            (Stranded(tasks, tasks[i]) /\ cancels' = 0 /\ ~isStopped')
            => attempts'[tasks[i].id] = attempts[tasks[i].id]]_vars
    /\ [][(runPc = "loop" /\ runPc' = "returned" /\ ~isStopped /\ cancels = 0)
          => \A i \in Idx(tasks) :
                Stranded(tasks, tasks[i])
                => /\ tasks'[i].status = "Error"
                   /\ Len(events') > Len(events)
                   /\ events'[Len(events) + 1] = StallMessage]_vars

(* The children of the task at index i that are not yet Done, Cancelled or Error *)
OutstandingChildren(ts, i) ==
    {j \in Idx(ts) : ts[j].delegatorTaskId = ts[i].id /\ ts[j].status \notin Terminal}

(* C21: each Delegating task has exactly one child that is not Done,   *)
(* Cancelled or Error.                                                 *)
C21_OneOutstandingChild ==
    \A i \in Idx(tasks) :
        tasks[i].status = "Delegating" => Cardinality(OutstandingChildren(tasks, i)) = 1

(* C22: every status change of a task is one of the transitions of the *)
(* state machine, and Executing -> Queued comes with retryCount + 1.   *)
C22_OnlySpecifiedTransitions ==
    [][\A i \in Idx(tasks) :
         LET transitions ==
                 {<<"Queued", "Executing">>, <<"Executing", "Done">>,
                  <<"Executing", "Queued">>, <<"Executing", "Error">>,
                  <<"Executing", "Delegating">>, <<"Delegating", "Executing">>,
                  <<"Queued", "Error">>}
                 \cup ({"Queued", "Executing", "Pending Review", "Delegating"}
                       \X {"Cancelled"})
         IN  tasks'[i].status # tasks[i].status
             => /\ <<tasks[i].status, tasks'[i].status>> \in transitions
                /\ (tasks[i].status = "Executing" /\ tasks'[i].status = "Queued")
                   => tasks'[i].retryCount = tasks[i].retryCount + 1]_vars

(* The scheduler loop is entered, admits nothing and has nothing in flight,
   while a task is Queued *)
StallFound ==
    /\ runPc = "loop" /\ ~isStopped
    /\ FindReadyTasks(tasks) = <<>>
    /\ DOMAIN activePromises = {}
    /\ \E i \in Idx(tasks) : tasks[i].status = "Queued"

(* C23: when the scheduler loop finds nothing in flight while a task   *)
(* is Queued and the run is not stopped, it forces every Queued task   *)
(* to Error, emits the stall diagnostic and nothing else, changes no   *)
(* other task, admits nothing and leaves the loop.                     *)
C23_StallHandling ==
    [][StallFound
       => /\ Len(tasks') = Len(tasks)
          /\ \A i \in Idx(tasks) :
                IF tasks[i].status = "Queued"
                THEN tasks'[i] = [tasks[i] EXCEPT !.status = "Error"]
                ELSE tasks'[i] = tasks[i]
          /\ events' = Append(events, StallMessage)
          /\ attempts' = attempts
          /\ invs' = invs
          /\ runPc' = "returned"]_vars

C23_Witness ==
    /\ runPc = "returned" /\ ~isStopped
    /\ Len(events) > 0 /\ events[Len(events)] = StallMessage
    /\ \E i \in Idx(tasks) : tasks[i].status = "Error" /\ attempts[tasks[i].id] = 0
    /\ \E i \in Idx(tasks) : tasks[i].status = "Done"
    /\ \E i \in Idx(tasks) : tasks[i].status = "Cancelled"

(* C24: once a task is Cancelled its subSteps do not change, no        *)
(* artifact is appended on its behalf and no child is created for it.  *)
C24_CancelledResultsDiscarded ==
    [][\A i \in Idx(tasks) :
         tasks[i].status = "Cancelled"
         => /\ tasks'[i].subSteps = tasks[i].subSteps
            /\ \A k \in (Len(currentArtifacts) + 1)..Len(currentArtifacts') :
                  currentArtifacts'[k] # tasks[i].id
            /\ \A j \in (Len(tasks) + 1)..Len(tasks') :
                  tasks'[j].delegatorTaskId # tasks[i].id]_vars

(* C25: when an awaited tool call rejects, a step is recorded in the   *)
(* subSteps of the task before the failure reaches the retry path.     *)
C25_FailedStepRecorded ==
    [][\A u \in DOMAIN invs :
         (invs[u].pc = "tool" /\ failures'[invs[u].id] = failures[invs[u].id] + 1)
         => \A i \in Idx(tasks) :
               tasks[i].id = invs[u].id
               => /\ Len(tasks'[i].subSteps) = Len(invs[u].steps) + 1
                  /\ tasks'[i].subSteps[Len(tasks'[i].subSteps)].toolCall = invs[u].call]_vars

(* An answer that does not parse, or that parses to an object without
   isFinished and without a thought and a toolCall with name and args *)
Malformed(raw) ==
    /\ raw.responds
    /\ \/ ~raw.parses
       \/ ~raw.isFinished /\ ~(raw.thought /\ raw.toolCall # "none" /\ raw.args)

(* C26: a malformed oracle answer becomes the fallback step that calls *)
(* askUser: the executor goes on to await that tool, no task changes   *)
(* (no retry, no Error) and no failure is counted.                     *)
C26_MalformedFallsBack ==
    [][\A uid \in DOMAIN invs, raw \in RawAnswers :
         (Malformed(raw) /\ OracleAnswers(uid, raw))
         => /\ uid \in DOMAIN invs'
            /\ invs'[uid].pc = "tool"
            /\ invs'[uid].call = "askUser"
            /\ tasks' = tasks
            /\ failures' = failures]_vars

C26_Witness ==
    \E uid \in DOMAIN invs :
        /\ invs[uid].pc = "tool"
        /\ invs[uid].call = "askUser"
        /\ Find(tasks, invs[uid].id).status = "Executing"
        /\ Find(tasks, invs[uid].id).retryCount >= 1

(* C27: subSteps never holds more than MAX_SUB_STEPS entries, and the  *)
(* step that records the last one, other than a delegation, leaves    *)
(* the task Done with its retryCount unchanged.                        *)
C27_SubStepsBounded ==
    /\ [](\A i \in Idx(tasks) : Len(tasks[i].subSteps) <= MAX_SUB_STEPS)
    /\ [][\A i \in Idx(tasks) :
            (/\ Len(tasks[i].subSteps) = MAX_SUB_STEPS - 1
             /\ Len(tasks'[i].subSteps) = MAX_SUB_STEPS
             /\ tasks'[i].subSteps[MAX_SUB_STEPS].toolCall
                    # "create_and_delegate_task_to_new_agent")
            => /\ tasks'[i].status = "Done"
               /\ tasks'[i].retryCount = tasks[i].retryCount]_vars

C27_Witness ==
    \E i \in Idx(tasks) :
        /\ Len(tasks[i].subSteps) = MAX_SUB_STEPS
        /\ tasks[i].status = "Done"
        /\ tasks[i].retryCount >= 1

(* C28: retryCount stays within 0..maxRetries and never decreases; a   *)
(* failed attempt made with retryCount < maxRetries is retried and     *)
(* adds exactly 1; a failed attempt made with retryCount = maxRetries  *)
(* is not retried; nothing else changes retryCount.                    *)
C28_RetryCountBounded ==
    /\ [](\A i \in Idx(tasks) :
            tasks[i].retryCount >= 0 /\ tasks[i].retryCount <= tasks[i].maxRetries)
    /\ [][\A i \in Idx(tasks) :
            LET t == tasks[i]
                failed == failures'[t.id] = failures[t.id] + 1
            IN  /\ tasks'[i].retryCount >= t.retryCount
                /\ tasks'[i].retryCount # t.retryCount => failed
                /\ (failed /\ t.retryCount < t.maxRetries)
                   => /\ tasks'[i].retryCount = t.retryCount + 1
                      /\ tasks'[i].status = "Queued"
                /\ (failed /\ t.retryCount >= t.maxRetries)
                   => /\ tasks'[i].retryCount = t.retryCount
                      /\ tasks'[i].status = "Error"]_vars

(* C29: in every state, for every task id, cancelTask comes to an end, *)
(* also on cyclic and self-dependent graphs; it sets no id to          *)
(* Cancelled twice, only ids that were not Cancelled, and leaves the   *)
(* task list that the cascade of cancelTask computes.                  *)
C29_CancelTerminates ==
    \A a \in {tasks[i].id : i \in Idx(tasks)} \cup {GhostId} :
        LET c == RecursivelyCancelIds([ts |-> tasks, cancelledIds |-> <<>>], a)
            ids == c.cancelledIds
        IN  /\ \A k, l \in 1..Len(ids) : ids[k] = ids[l] => k = l
            /\ \A k \in 1..Len(ids) :
                  /\ Find(tasks, ids[k]).status # "Cancelled"
                  /\ Find(c.ts, ids[k]).status = "Cancelled"
            /\ Len(ids) <= Len(tasks)
            /\ c.ts = RecursivelyCancel(tasks, a)

C29_Witness ==
    /\ cancels = 1
    /\ \A i \in InitIds : initialTasks[i].dependencies = {(i % NumTasks) + 1}
    /\ LET c == RecursivelyCancelIds([ts |-> initialTasks, cancelledIds |-> <<>>], 1)
       IN  Len(c.cancelledIds) = NumTasks
    /\ \A i \in Idx(tasks) : tasks[i].status = "Cancelled"

(* C30: findReadyTasks returns, in list order, exactly the Queued      *)
(* tasks whose dependencies are all ids of Done tasks of the list: a   *)
(* Queued task without dependencies is returned, a task that depends   *)
(* on itself or on an absent id is not.                                *)
C30_ReadyExactly ==
    LET ready == FindReadyTasks(tasks)
        doneIds == IdsWith(tasks, "Done")
        present == {tasks[i].id : i \in Idx(tasks)}
        isReady(t) == t.status = "Queued" /\ t.dependencies \subseteq doneIds
    IN  /\ ready = SelectSeq(tasks, isReady)
        /\ \A i \in Idx(tasks) :
              (tasks[i].status = "Queued" /\ tasks[i].dependencies = {})
              => \E k \in 1..Len(ready) : ready[k] = tasks[i]
        /\ \A k \in 1..Len(ready) :
              /\ ready[k].status = "Queued"
              /\ ready[k].id \notin ready[k].dependencies
              /\ ready[k].dependencies \subseteq present

C30_Witness ==
    /\ runPc = "loop"
    /\ \E i \in Idx(tasks) :
          /\ tasks[i].dependencies # {}
          /\ \E k \in 1..Len(FindReadyTasks(tasks)) : FindReadyTasks(tasks)[k] = tasks[i]
    /\ \E i \in Idx(tasks) :
          /\ tasks[i].status = "Queued"
          /\ \A k \in 1..Len(FindReadyTasks(tasks)) : FindReadyTasks(tasks)[k] # tasks[i]
    /\ \E i \in Idx(tasks) : tasks[i].status = "Done"

(* C31: updateTask sets the fields named in the update on every entry  *)
(* with the id, keeps the other fields those entries have in the list, *)
(* leaves every other entry as it is and hands out the new state of    *)
(* the first such entry; no step of the system changes the id,         *)
(* dependencies, maxRetries, delegatorTaskId or agent of a task.       *)
C31_UpdateTaskFrame ==
    /\ [](\A id \in {tasks[i].id : i \in Idx(tasks)} \cup {GhostId} :
          \A upd \in {[status |-> "Done"],
                      [status |-> "Queued", retryCount |-> 1],
                      [subSteps |-> <<SubStep("askUser", "result")>>],
                      [status |-> "Delegating", subSteps |-> <<>>]} :
            LET new == UpdateTask(tasks, id, upd)
                hit == {i \in Idx(tasks) : tasks[i].id = id}
                stale == [NoTask EXCEPT !.id = id, !.status = "Executing"]
            IN  /\ Len(new) = Len(tasks)
                /\ \A i \in Idx(tasks) \ hit : new[i] = tasks[i]
                /\ \A i \in hit : \A f \in DOMAIN tasks[i] :
                      new[i][f] = IF f \in DOMAIN upd THEN upd[f] ELSE tasks[i][f]
                /\ hit # {} => UpdatedTask(tasks, stale, upd) = new[Min(hit)])
    /\ [][\A i \in Idx(tasks) :
            /\ tasks'[i].id = tasks[i].id
            /\ tasks'[i].dependencies = tasks[i].dependencies
            /\ tasks'[i].maxRetries = tasks[i].maxRetries
            /\ tasks'[i].delegatorTaskId = tasks[i].delegatorTaskId
            /\ tasks'[i].god = tasks[i].god]_vars

C31_Witness ==
    \E i, j \in Idx(tasks) :
        /\ i # j
        /\ tasks[i].status = "Executing"
        /\ tasks[i].retryCount >= 1
        /\ Len(tasks[i].subSteps) >= 1
        /\ tasks[j].status = "Executing"
        /\ tasks[j].retryCount = 0
        /\ Len(tasks[j].subSteps) >= 1

(* C32: after stop(), run() returns only when every executor it has    *)
(* started has settled, so that no executor is left to write a task    *)
(* status, a subStep or an artifact after the return.                  *)
C32_StoppedReturnAfterSettle ==
    [][(runPc # "returned" /\ runPc' = "returned" /\ isStopped') => invs' = <<>>]_vars

(* C34: subSteps is an append-only log: in every step each task's      *)
(* earlier subSteps are an unchanged prefix of its later subSteps.     *)
C34_SubStepsAppendOnly ==
    [][\A i \in Idx(tasks) :
         /\ Len(tasks'[i].subSteps) >= Len(tasks[i].subSteps)
         /\ \A k \in 1..Len(tasks[i].subSteps) :
               tasks'[i].subSteps[k] = tasks[i].subSteps[k]]_vars

(* An invocation that is between setting its task to Executing and the end
   of that attempt *)
Driving(u) == invs[u].pc \in {"oracle", "tool", "sim"}

(* C35: a stall is declared only when no executor of the run is still  *)
(* executing a task.                                                   *)
C35_StallOnlyWhenIdle ==
    [][(Len(events') > Len(events) /\ events'[Len(events')] = StallMessage)
       => \A u \in DOMAIN invs' : ~(Driving(u)')]_vars

(* C36: no two invocations of executeTask drive the same task id at    *)
(* the same time.                                                      *)
C36_OneDriverPerTask ==
    \A u, v \in DOMAIN invs :
        (Driving(u) /\ Driving(v) /\ invs[u].id = invs[v].id) => u = v

(* C38: the ids of the task list are pairwise distinct.                *)
C38_IdsDistinct ==
    \A i, j \in Idx(tasks) : tasks[i].id = tasks[j].id => i = j

C36_Witness ==
    \E u, v \in DOMAIN invs :
        /\ invs[u].id = invs[v].id
        /\ invs[u].pc = "backoff"
        /\ Driving(v)
        /\ Find(tasks, invs[v].id).status = "Executing"

(* The task at index i is Delegating and a child of it is Error with its
   retries used up *)
ChildFailed(ts, i) ==
    /\ ts[i].status = "Delegating"
    /\ \E j \in Idx(ts) :
          /\ ts[j].delegatorTaskId = ts[i].id
          /\ ts[j].status = "Error"
          /\ ts[j].retryCount = ts[j].maxRetries

(* C33: a Delegating task whose child fails or has failed for good     *)
(* stays Delegating in that and every later step (no stop, no cancel), *)
(* and does not keep run() from returning: with nothing Queued,        *)
(* Executing or in flight the scheduler iteration leaves the loop.     *)
C33_ParentStaysDelegating ==
    /\ [][\A i \in Idx(tasks) :
            (tasks[i].status = "Delegating" /\ ChildFailed([tasks' EXCEPT ![i] = tasks[i]], i))
            => tasks'[i].status = "Delegating"]_vars
    /\ []((/\ runPc = "loop"
           /\ \E i \in Idx(tasks) : ChildFailed(tasks, i)
           /\ \A i \in Idx(tasks) : tasks[i].status \notin {"Queued", "Executing"}
           /\ DOMAIN activePromises = {})
          => RunIteration(St, isFromPlaybook).runPc = "returned")

C33_Witness ==
    /\ runPc = "returned"
    /\ \E i \in Idx(tasks) :
          /\ ChildFailed(tasks, i)
          /\ \E j \in Idx(tasks) :
                /\ tasks[j].delegatorTaskId = tasks[i].id
                /\ failures[tasks[j].id] = ChildMaxRetries + 1

(* C37: a run that is not a playbook emits at most one outcome event,  *)
(* run-finished or run-failed, and a run that reports a stall emits    *)
(* nothing but the stall diagnostic.                                   *)
C37_OneOutcomeEvent ==
    ~isFromPlaybook
    => /\ Len(events) <= 1
       /\ (\E k \in 1..Len(events) : events[k] = StallMessage) => events = <<StallMessage>>

C37_Witness ==
    /\ ~isFromPlaybook /\ ~isStopped
    /\ runPc = "returned"
    /\ events = <<StallMessage>>
    /\ \E i \in Idx(tasks) : tasks[i].status = "Done"
    /\ \E i \in Idx(tasks) : tasks[i].status = "Error" /\ failures[tasks[i].id] > 0

(* C39: an oracle step that names a tool outside the tool surface      *)
(* records a step with the 'not found' observation and changes neither *)
(* the status nor the retryCount of the task, counts no failure, and,  *)
(* with the task Executing, the run not stopped and the step bound not *)
(* reached, leaves the executor awaiting the next oracle answer.       *)
C39_UnknownToolNotAnError ==
    [][\A uid \in DOMAIN invs :
         OracleUnknownTool(uid)
         => LET id == invs[uid].id
                step == SubStep("unknownTool", "not found")
            IN  /\ failures' = failures
                /\ \A i \in Idx(tasks) :
                      IF tasks[i].id = id
                      THEN /\ tasks'[i].subSteps = Append(invs[uid].steps, step)
                           /\ tasks'[i].retryCount = tasks[i].retryCount
                           /\ (\/ tasks[i].status # "Executing"
                               \/ ~isStopped /\ Len(invs[uid].steps) + 1 < MAX_SUB_STEPS)
                              => tasks'[i].status = tasks[i].status
                      ELSE tasks'[i] = tasks[i]
                /\ (/\ Find(tasks, id).status = "Executing"
                    /\ ~isStopped
                    /\ Len(invs[uid].steps) + 1 < MAX_SUB_STEPS)
                   => /\ uid \in DOMAIN invs'
                      /\ invs'[uid].pc = "oracle"]_vars

C39_Witness ==
    \E uid \in DOMAIN invs :
        /\ invs[uid].pc = "oracle"
        /\ Len(invs[uid].steps) >= 2
        /\ invs[uid].steps[1].observation = "not found"
        /\ Find(tasks, invs[uid].id).status = "Executing"
        /\ Find(tasks, invs[uid].id).subSteps = invs[uid].steps

====
